---- MODULE Spec2Model ----
(***************************************************************************)
(* Model of the text search core: TextProcessor (text_processor.py),       *)
(* InvertedIndex (test_processing_ir/inverted_index.py) and Indexer        *)
(* (test_processing_ir/indexer.py).                                        *)
(*                                                                         *)
(* A str is a sequence of one-character strings.  A Python dict is a       *)
(* sequence of <<key, value>> pairs in insertion order: assigning to an    *)
(* existing key keeps its position, assigning to a new key appends.        *)
(*                                                                         *)
(* Three specifications share the variables:                               *)
(*   Spec     the Indexer driven through its public methods;               *)
(*   SpecTP   stem and TextProcessor.process applied to bounded texts;     *)
(*   SpecInv  an InvertedIndex driven directly.                            *)
(***************************************************************************)
EXTENDS Integers, Sequences, FiniteSets

VARIABLES
    documents,  \* Indexer.documents: dict doc_id -> raw text
    index,      \* InvertedIndex.index: dict term -> (dict doc_id -> frequency)
    indexed,    \* history: Indexer.documents as it was at the last build_index
    built,      \* history: build_index has been called at least once
    builds,     \* history: build_index calls since the last Indexer.add_document
    nAdds,      \* number of add_document calls made so far
    text,       \* the text a caller is composing (SpecTP)
    op,         \* name of the last call
    arg,        \* its arguments
    ret         \* its return value (<<>> for None)

vars == <<documents, index, indexed, built, builds, nAdds, text, op, arg, ret>>

(***************************************************************************)
(* Bounds                                                                  *)
(***************************************************************************)
MaxDocs == 2
MaxAdds == 2
MaxBuilds == 2
MaxChunks == 3
MaxCalls == 3

DocIds == 1..MaxDocs

(***************************************************************************)
(* dict                                                                    *)
(***************************************************************************)
DictKeys(d) == {d[i][1] : i \in 1..Len(d)}

DictHas(d, k) == k \in DictKeys(d)

DictPos(d, k) == CHOOSE i \in 1..Len(d) : d[i][1] = k

\* d[k]
DictGet(d, k) == d[DictPos(d, k)][2]

\* d.get(k, default)
DictGetDefault(d, k, default) == IF DictHas(d, k) THEN DictGet(d, k) ELSE default

\* d[k] = v
DictPut(d, k, v) ==
    IF DictHas(d, k)
    THEN [d EXCEPT ![DictPos(d, k)] = <<k, v>>]
    ELSE Append(d, <<k, v>>)

(***************************************************************************)
(* text_processor.py                                                       *)
(***************************************************************************)
LowerAlpha ==
    <<"a", "b", "c", "d", "e", "f", "g", "h", "i", "j", "k", "l", "m",
      "n", "o", "p", "q", "r", "s", "t", "u", "v", "w", "x", "y", "z">>

UpperAlpha ==
    <<"A", "B", "C", "D", "E", "F", "G", "H", "I", "J", "K", "L", "M",
      "N", "O", "P", "Q", "R", "S", "T", "U", "V", "W", "X", "Y", "Z">>

\* the lower-case letter of each upper-case letter
LowerOf ==
    [c \in {UpperAlpha[i] : i \in 1..Len(UpperAlpha)} |->
        LowerAlpha[CHOOSE i \in 1..Len(UpperAlpha) : UpperAlpha[i] = c]]

\* str.lower() on one character
Lower(c) == IF c \in DOMAIN LowerOf THEN LowerOf[c] ELSE c

\* the characters of the class [a-zA-Z]
Alpha ==
    {LowerAlpha[i] : i \in 1..Len(LowerAlpha)} \cup {UpperAlpha[i] : i \in 1..Len(UpperAlpha)}

IsAlpha(c) == c \in Alpha

suffixes ==
    << <<"i", "n", "g">>, <<"l", "y">>, <<"e", "d">>, <<"s">>,
       <<"e", "s">>, <<"e", "r">>, <<"e", "s", "t">> >>

\* token.endswith(suffix)
EndsWith(token, suffix) ==
    /\ Len(suffix) <= Len(token)
    /\ SubSeq(token, Len(token) - Len(suffix) + 1, Len(token)) = suffix

\* token[:-len(suffix)]
StripSuffix(token, suffix) == SubSeq(token, 1, Len(token) - Len(suffix))

StemApplies_NoGuard(token, suffix) ==
    EndsWith(token, suffix) /\ Len(token) > Len(suffix)

\* the condition of the if in stem
StemApplies(token, suffix) ==
    EndsWith(token, suffix) /\ Len(token) > Len(suffix) + 2

RECURSIVE StemFrom(_, _)
\* the for loop of stem, from the k-th suffix on
StemFrom(token, k) ==
    IF k > Len(suffixes) THEN token
    ELSE IF StemApplies(token, suffixes[k]) THEN StripSuffix(token, suffixes[k])
    ELSE StemFrom(token, k + 1)

stem(token) == StemFrom(token, 1)

STOP_WORDS ==
    { <<"i", "s">>, <<"t", "h", "e">>, <<"o", "f">>, <<"a", "n", "d">>,
      <<"t", "o">>, <<"i", "n">>, <<"a">>, <<"t", "h", "a", "t">>,
      <<"f", "o", "r">>, <<"w", "i", "t", "h">>, <<"t", "h", "i", "s">>,
      <<"o", "n">>, <<"a", "s">>, <<"b", "y">>, <<"a", "n">> }

RECURSIVE FindAll(_, _, _, _)
\* re.findall of [a-zA-Z]+ over s from position i on: cur is the run being
\* read, acc the runs found so far
FindAll(s, i, cur, acc) ==
    IF i > Len(s)
    THEN IF cur = <<>> THEN acc ELSE Append(acc, cur)
    ELSE IF IsAlpha(s[i])
         THEN FindAll(s, i + 1, Append(cur, s[i]), acc)
         ELSE FindAll(s, i + 1, <<>>, IF cur = <<>> THEN acc ELSE Append(acc, cur))

tokenize(t) == FindAll([i \in 1..Len(t) |-> Lower(t[i])], 1, <<>>, <<>>)

remove_stop_words_Keep(tokens) == tokens

remove_stop_words(tokens) == SelectSeq(tokens, LAMBDA token : token \notin STOP_WORDS)

process(t) ==
    LET tokens == remove_stop_words(tokenize(t))
    IN  [i \in 1..Len(tokens) |-> stem(tokens[i])]

(***************************************************************************)
(* test_processing_ir/inverted_index.py                                    *)
(***************************************************************************)
RECURSIVE TermFrequency(_, _, _)
\* the first loop of InvertedIndex.add_document: term_frequency[term] += 1
\* for terms[i..], on the defaultdict(int) tf
TermFrequency(terms, i, tf) ==
    IF i > Len(terms) THEN tf
    ELSE TermFrequency(terms, i + 1,
                       DictPut(tf, terms[i], DictGetDefault(tf, terms[i], 0) + 1))

SetPosting_Accumulate(idx, term, doc_id, freq) ==
    LET postings == DictGetDefault(idx, term, <<>>)
    IN  DictPut(idx, term,
                DictPut(postings, doc_id, DictGetDefault(postings, doc_id, 0) + freq))

SetPosting_Replace(idx, term, doc_id, freq) ==
    DictPut(idx, term, << <<doc_id, freq>> >>)

\* self.index[term][doc_id] = freq, on the defaultdict(dict) idx
SetPosting(idx, term, doc_id, freq) ==
    DictPut(idx, term, DictPut(DictGetDefault(idx, term, <<>>), doc_id, freq))

RECURSIVE SetPostings(_, _, _, _)
\* the second loop of InvertedIndex.add_document, over term_frequency.items()
SetPostings(idx, doc_id, tf, i) ==
    IF i > Len(tf) THEN idx
    ELSE SetPostings(SetPosting(idx, tf[i][1], doc_id, tf[i][2]), doc_id, tf, i + 1)

InvertedIndex_add_document(idx, doc_id, terms) ==
    SetPostings(idx, doc_id, TermFrequency(terms, 1, <<>>), 1)

InvertedIndex_search_GetItem(idx, term) ==
    IF DictHas(idx, term)
    THEN [ret |-> DictGet(idx, term), index |-> idx]
    ELSE [ret |-> <<>>, index |-> Append(idx, <<term, <<>>>>)]

\* self.index.get(term, {}): the mapping returned and the index after the call
InvertedIndex_search(idx, term) ==
    [ret |-> DictGetDefault(idx, term, <<>>), index |-> idx]

(***************************************************************************)
(* test_processing_ir/indexer.py                                           *)
(***************************************************************************)
Indexer_add_document_Reset(docs, idx, doc_id, t) ==
    [documents |-> << <<doc_id, t>> >>, index |-> idx]

Indexer_add_document_Eager(docs, idx, doc_id, t) ==
    [documents |-> DictPut(docs, doc_id, t),
     index |-> InvertedIndex_add_document(idx, doc_id, process(t))]

\* self.documents[doc_id] = text: the document store and the index after the call
Indexer_add_document(docs, idx, doc_id, t) ==
    [documents |-> DictPut(docs, doc_id, t), index |-> idx]

RECURSIVE BuildFrom(_, _, _)
\* the loop of Indexer.build_index over self.documents.items(), from item i on
BuildFrom(docs, idx, i) ==
    IF i > Len(docs) THEN idx
    ELSE BuildFrom(docs,
                   InvertedIndex_add_document(idx, docs[i][1], process(docs[i][2])),
                   i + 1)

Indexer_build_index(docs, idx) == BuildFrom(docs, idx, 1)

RECURSIVE AddPostings(_, _, _)
\* the inner loop of Indexer.search: results[doc_id] += freq over postings.items()
AddPostings(results, postings, j) ==
    IF j > Len(postings) THEN results
    ELSE AddPostings(DictPut(results, postings[j][1],
                             DictGetDefault(results, postings[j][1], 0) + postings[j][2]),
                     postings, j + 1)

RECURSIVE ScoreTerms(_, _, _, _)
\* the outer loop of Indexer.search over processed_terms, from term i on
ScoreTerms(idx, terms, i, results) ==
    IF i > Len(terms) THEN [ret |-> results, index |-> idx]
    ELSE LET found == InvertedIndex_search(idx, terms[i])
         IN  ScoreTerms(found.index, terms, i + 1, AddPostings(results, found.ret, 1))

\* where a stable descending sort puts item x in the sorted sequence s:
\* before the first item of strictly smaller score
InsertDesc(s, x) ==
    LET smaller == {i \in 1..Len(s) : s[i][2] < x[2]}
        at == IF smaller = {} THEN Len(s) + 1
              ELSE CHOOSE i \in smaller : \A j \in smaller : i <= j
    IN  SubSeq(s, 1, at - 1) \o <<x>> \o SubSeq(s, at, Len(s))

RECURSIVE SortFrom(_, _, _)
SortFrom(items, i, s) ==
    IF i > Len(items) THEN s ELSE SortFrom(items, i + 1, InsertDesc(s, items[i]))

sorted_by_score_Unsorted(items) == items

\* sorted(results.items(), key=lambda x: x[1], reverse=True)
sorted_by_score(items) == SortFrom(items, 1, <<>>)

Indexer_search(idx, query) ==
    LET scored == ScoreTerms(idx, process(query), 1, <<>>)
    IN  [ret |-> sorted_by_score(scored.ret), index |-> scored.index]

(***************************************************************************)
(* Inputs                                                                  *)
(***************************************************************************)
Cats == <<"C", "a", "t", "s">>
cats == <<"c", "a", "t", "s">>
dog == <<"d", "o", "g">>
Dogs == <<"D", "o", "g", "s">>
the == <<"t", "h", "e">>
birds == <<"b", "i", "r", "d", "s">>
sp == <<" ">>

\* texts passed to Indexer.add_document
Texts ==
    { Cats,                                  \* process: cat
      the \o sp \o dog,                      \* process: dog
      dog \o sp \o cats \o <<",">> \o Cats,  \* process: dog cat cat
      Dogs \o <<"!">> \o sp \o dog }         \* process: dog dog

\* queries passed to Indexer.search
Queries ==
    { cats \o sp \o dog,                     \* process: cat dog
      Cats \o sp \o cats,                    \* process: cat cat
      Dogs,                                  \* process: dog
      the,                                   \* process: (nothing)
      birds }                                \* process: bird

\* terms passed to InvertedIndex.search
Terms == { <<"c", "a", "t">>, dog, <<"b", "i", "r", "d">> }

(***************************************************************************)
(* Spec: the Indexer                                                       *)
(***************************************************************************)
Init ==
    /\ documents = <<>>
    /\ index = <<>>
    /\ indexed = <<>>
    /\ built = FALSE
    /\ builds = 0
    /\ nAdds = 0
    /\ text = <<>>
    /\ op = "init"
    /\ arg = <<>>
    /\ ret = <<>>

AddDocument(doc_id, t) ==
    /\ nAdds < MaxAdds
    /\ LET after == Indexer_add_document(documents, index, doc_id, t)
       IN  /\ documents' = after.documents
           /\ index' = after.index
    /\ nAdds' = nAdds + 1
    /\ builds' = 0
    /\ op' = "Indexer.add_document"
    /\ arg' = <<doc_id, t>>
    /\ ret' = <<>>
    /\ UNCHANGED <<indexed, built, text>>

BuildIndex ==
    /\ builds < MaxBuilds
    /\ index' = Indexer_build_index(documents, index)
    /\ indexed' = documents
    /\ built' = TRUE
    /\ builds' = builds + 1
    /\ op' = "Indexer.build_index"
    /\ arg' = <<>>
    /\ ret' = <<>>
    /\ UNCHANGED <<documents, nAdds, text>>

Search(query) ==
    /\ LET found == Indexer_search(index, query)
       IN  /\ ret' = found.ret
           /\ index' = found.index
    /\ op' = "Indexer.search"
    /\ arg' = query
    /\ UNCHANGED <<documents, indexed, built, builds, nAdds, text>>

IndexSearch(term) ==
    /\ LET found == InvertedIndex_search(index, term)
       IN  /\ ret' = found.ret
           /\ index' = found.index
    /\ op' = "InvertedIndex.search"
    /\ arg' = term
    /\ UNCHANGED <<documents, indexed, built, builds, nAdds, text>>

Next ==
    \/ \E doc_id \in DocIds, t \in Texts : AddDocument(doc_id, t)
    \/ BuildIndex
    \/ \E query \in Queries : Search(query)
    \/ \E term \in Terms : IndexSearch(term)

Spec == Init /\ [][Next]_vars

(***************************************************************************)
(* SpecTP: stem and TextProcessor.process on texts composed of chunks      *)
(***************************************************************************)
Chunks ==
    { <<"i", "n", "g">>, <<"l", "y">>, <<"e", "d">>, <<"s">>, <<"e", "s">>,
      <<"e", "r">>, <<"e", "s", "t">>,
      <<"f", "o", "r">>, <<"i", "s">>, <<"a">>, <<"R", "u", "n">>,
      <<" ">>, <<"9">> }

RECURSIVE Concat(_, _)
\* the str made of the chunks pieces[i..]
Concat(pieces, i) ==
    IF i > Len(pieces) THEN <<>> ELSE pieces[i] \o Concat(pieces, i + 1)

Compose(chunk) ==
    /\ Len(text) < MaxChunks
    /\ text' = Append(text, chunk)
    /\ op' = "compose"
    /\ arg' = <<>>
    /\ ret' = <<>>
    /\ UNCHANGED <<documents, index, indexed, built, builds, nAdds>>

CallStem ==
    /\ op' = "stem"
    /\ arg' = Concat(text, 1)
    /\ ret' = stem(Concat(text, 1))
    /\ UNCHANGED <<documents, index, indexed, built, builds, nAdds, text>>

CallProcess ==
    /\ op' = "process"
    /\ arg' = Concat(text, 1)
    /\ ret' = process(Concat(text, 1))
    /\ UNCHANGED <<documents, index, indexed, built, builds, nAdds, text>>

NextTP ==
    \/ \E chunk \in Chunks : Compose(chunk)
    \/ CallStem
    \/ CallProcess

SpecTP == Init /\ [][NextTP]_vars

(***************************************************************************)
(* SpecInv: an InvertedIndex called directly                               *)
(***************************************************************************)
ta == <<"a">>
tb == <<"b">>
tc == <<"c">>

\* term sequences passed to InvertedIndex.add_document
TermLists == { <<>>, <<ta, tb, ta>>, <<tb, tc>>, <<tc>> }

InvAddDocument(doc_id, terms) ==
    /\ nAdds < MaxCalls
    /\ index' = InvertedIndex_add_document(index, doc_id, terms)
    /\ nAdds' = nAdds + 1
    /\ op' = "InvertedIndex.add_document"
    /\ arg' = <<doc_id, terms>>
    /\ ret' = <<>>
    /\ UNCHANGED <<documents, indexed, built, builds, text>>

InvSearch(term) ==
    /\ LET found == InvertedIndex_search(index, term)
       IN  /\ ret' = found.ret
           /\ index' = found.index
    /\ op' = "InvertedIndex.search"
    /\ arg' = term
    /\ UNCHANGED <<documents, indexed, built, builds, nAdds, text>>

NextInv ==
    \/ \E doc_id \in DocIds, terms \in TermLists : InvAddDocument(doc_id, terms)
    \/ \E term \in {ta, tb, tc} : InvSearch(term)

SpecInv == Init /\ [][NextInv]_vars

(***************************************************************************)
(* Properties                                                              *)
(***************************************************************************)
\* number of occurrences of x in the sequence s
Count(x, s) == Cardinality({k \in 1..Len(s) : s[k] = x})

\* the elements of the sequence s
Elements(s) == {s[k] : k \in 1..Len(s)}

\* the frequency stored for (term, doc_id) in idx, 0 when there is no entry
Freq(idx, term, doc_id) ==
    IF DictHas(idx, term) /\ DictHas(DictGet(idx, term), doc_id)
    THEN DictGet(DictGet(idx, term), doc_id)
    ELSE 0

\* (term, doc_id) has a postings entry in idx
HasEntry(idx, term, doc_id) ==
    DictHas(idx, term) /\ DictHas(DictGet(idx, term), doc_id)

\* the doc_ids with some postings entry in idx
IndexDocs(idx) == UNION {DictKeys(idx[i][2]) : i \in 1..Len(idx)}

RECURSIVE SumFreq(_, _, _, _)
\* sum over terms[k..] of the frequency stored for doc_id
SumFreq(idx, terms, k, doc_id) ==
    IF k > Len(terms) THEN 0
    ELSE Freq(idx, terms[k], doc_id) + SumFreq(idx, terms, k + 1, doc_id)

\* C1 (as claimed): every postings entry (term, doc_id) of the index equals
\* the number of occurrences of term in process(text) of the text doc_id
\* held at the last build_index.
C1_PostingsMatchLastBuild ==
    \A i \in 1..Len(index) : \A j \in 1..Len(index[i][2]) :
        LET term == index[i][1]
            doc_id == index[i][2][j][1]
            freq == index[i][2][j][2]
        IN  /\ DictHas(indexed, doc_id)
            /\ freq = Count(term, process(DictGet(indexed, doc_id)))

\* C2 (as claimed): a term is a key of the index iff it occurs in the
\* processed terms of some document as of the last build_index, and no term
\* is present with an empty postings map.
C2_TermsAreIndexedTerms ==
    /\ DictKeys(index) =
           UNION {Elements(process(indexed[i][2])) : i \in 1..Len(indexed)}
    /\ \A i \in 1..Len(index) : index[i][2] # <<>>

\* C3: Indexer.search returns exactly the doc_ids with a postings entry under
\* some processed query term, each once, with score the sum over the sequence
\* of processed query terms of the stored frequency (0 when absent), in
\* non-increasing score order; when no query term is in the index the result
\* is empty.
C3_SearchScores ==
    [][op' = "Indexer.search" =>
        \A terms \in {process(arg')} :
        \A matching \in {{d \in IndexDocs(index) :
                            \E k \in 1..Len(terms) : HasEntry(index, terms[k], d)}} :
            /\ {ret'[i][1] : i \in 1..Len(ret')} = matching
            /\ Len(ret') = Cardinality(matching)
            /\ \A i \in 1..Len(ret') :
                   ret'[i][2] = SumFreq(index, terms, 1, ret'[i][1])
            /\ \A i, j \in 1..Len(ret') : i < j => ret'[i][2] >= ret'[j][2]
            /\ (\A k \in 1..Len(terms) : ~DictHas(index, terms[k])) => ret' = <<>>
    ]_vars

\* a search over two query terms, one of them repeated in a document, that
\* returns two documents with different scores
C3_Witness ==
    /\ op = "Indexer.search"
    /\ Len(process(arg)) >= 2
    /\ Len(ret) >= 2
    /\ ret[1][2] > ret[2][2]
    /\ ret[1][1] > ret[2][1]

\* C4: a build_index with no add_document since the previous build_index
\* leaves the index as it was, and every query returns the same doc_ids,
\* scores and order as before it.
C4_RebuildIdempotent ==
    [][(builds >= 1 /\ op' = "Indexer.build_index") =>
        /\ index' = index
        /\ \A q \in Queries : Indexer_search(index', q).ret = Indexer_search(index, q).ret
    ]_vars

\* a second build_index in a row over two documents and two indexed terms
C4_Witness ==
    /\ op = "Indexer.build_index"
    /\ builds >= 2
    /\ Len(documents) >= 2
    /\ Len(index) >= 2

\* C5: Indexer.add_document(doc_id, text) sets the store entry of doc_id to
\* text, keeps every other document's text, and keeps the index.
C5_AddDocumentFrame ==
    [][op' = "Indexer.add_document" =>
        LET doc_id == arg'[1]
            t == arg'[2]
        IN  /\ DictKeys(documents') = DictKeys(documents) \cup {doc_id}
            /\ DictGet(documents', doc_id) = t
            /\ \A other \in DictKeys(documents) \ {doc_id} :
                   DictGet(documents', other) = DictGet(documents, other)
            /\ index' = index
    ]_vars

\* an add_document next to another stored document, on a non-empty index
C5_Witness ==
    /\ op = "Indexer.add_document"
    /\ Len(documents) >= 2
    /\ index # <<>>

\* C6: InvertedIndex.search and Indexer.search leave the index and the
\* document store as they were; a lookup of an absent term returns the empty
\* mapping and creates no entry.
C6_SearchReadOnly ==
    [][op' \in {"Indexer.search", "InvertedIndex.search"} =>
        /\ index' = index
        /\ documents' = documents
        /\ (op' = "InvertedIndex.search" /\ ~DictHas(index, arg')) =>
               (ret' = <<>> /\ ~DictHas(index', arg'))
    ]_vars

\* a lookup of a term that a non-empty index does not hold
C6_Witness ==
    /\ op = "InvertedIndex.search"
    /\ index # <<>>
    /\ ~DictHas(index, arg)
    /\ ret = <<>>

\* C7: before the first build_index every query returns the empty result,
\* whatever was added; and an add_document changes no search result.
C7_SearchReflectsLastBuild ==
    /\ [](~built => \A q \in Queries : Indexer_search(index, q).ret = <<>>)
    /\ [][op' = "Indexer.add_document" =>
            \A q \in Queries :
                Indexer_search(index', q).ret = Indexer_search(index, q).ret]_vars

\* an indexed document re-added with another text, while some query has a
\* non-empty result
C7_Witness ==
    /\ built
    /\ op = "Indexer.add_document"
    /\ DictHas(indexed, arg[1])
    /\ DictGet(indexed, arg[1]) # arg[2]
    /\ \E q \in Queries : Indexer_search(index, q).ret # <<>>

\* C8: stem strips no suffix from a token of length at most len(suffix)+2;
\* so it returns no empty string for a non-empty token, a stripped token
\* keeps at least 3 characters, and a token with no eligible suffix is
\* returned unchanged.
C8_StemGuard ==
    op = "stem" =>
        /\ \A k \in 1..Len(suffixes) :
               (EndsWith(arg, suffixes[k]) /\ Len(arg) <= Len(suffixes[k]) + 2)
                   => ret # StripSuffix(arg, suffixes[k])
        /\ arg # <<>> => ret # <<>>
        /\ ret # arg => Len(ret) >= 3
        /\ (\A k \in 1..Len(suffixes) :
               ~(EndsWith(arg, suffixes[k]) /\ Len(arg) > Len(suffixes[k]) + 2))
               => ret = arg

\* a token that ends with a suffix and is exactly len(suffix)+2 long,
\* returned unchanged
C8_Witness ==
    /\ op = "stem"
    /\ ret = arg
    /\ \E k \in 1..Len(suffixes) :
           EndsWith(arg, suffixes[k]) /\ Len(arg) = Len(suffixes[k]) + 2

\* C9 (as claimed): no term of process(text) is a stop word, and process(w)
\* is empty for every stop word w.
C9_NoStopWordTerm ==
    op = "process" =>
        /\ \A i \in 1..Len(ret) : ret[i] \notin STOP_WORDS
        /\ arg \in STOP_WORDS => ret = <<>>

\* the positions of the tokens of t that are not stop words
KeptPositions(t) == {k \in 1..Len(tokenize(t)) : tokenize(t)[k] \notin STOP_WORDS}

\* C9 (amended): process(text) has exactly one term per token of the text
\* that is not a stop word; a term that is a stop word is the stem of a
\* strictly longer token of the text that is not a stop word; and process(w)
\* is empty for every stop word w.
C9_StopWordsFilteredBeforeStemming ==
    op = "process" =>
        /\ Len(ret) = Cardinality(KeptPositions(arg))
        /\ \A i \in 1..Len(ret) :
               ret[i] \in STOP_WORDS =>
                   \E k \in KeptPositions(arg) :
                       LET token == tokenize(arg)[k]
                       IN  /\ Len(token) > Len(ret[i])
                           /\ SubSeq(token, 1, Len(ret[i])) = ret[i]
        /\ arg \in STOP_WORDS => ret = <<>>

\* process returned a term that is a stop word
C9_Witness ==
    /\ op = "process"
    /\ \E i \in 1..Len(ret) : ret[i] \in STOP_WORDS

\* C10: InvertedIndex.add_document(doc_id, terms) sets the entry (t, doc_id)
\* to the count of t in terms for exactly the distinct terms t of terms and
\* keeps every other entry, those of doc_id under other terms included; an
\* empty terms changes nothing.
C10_IndexAddDocumentFrame ==
    [][op' = "InvertedIndex.add_document" =>
        LET doc_id == arg'[1]
            terms == arg'[2]
        IN  /\ \A t \in Elements(terms) :
                   /\ HasEntry(index', t, doc_id)
                   /\ Freq(index', t, doc_id) = Count(t, terms)
            /\ DictKeys(index') = DictKeys(index) \cup Elements(terms)
            /\ \A t \in DictKeys(index'), d \in IndexDocs(index) \cup IndexDocs(index') :
                   (d # doc_id \/ t \notin Elements(terms)) =>
                       /\ HasEntry(index', t, d) <=> HasEntry(index, t, d)
                       /\ Freq(index', t, d) = Freq(index, t, d)
            /\ terms = <<>> => index' = index
    ]_vars

\* a second add_document for a doc_id that leaves it under a term of its
\* first term sequence only, next to another document's entry under a term
\* of the new sequence
C10_Witness ==
    /\ op = "InvertedIndex.add_document"
    /\ arg[2] # <<>>
    /\ \E t \in DictKeys(index) :
           t \notin Elements(arg[2]) /\ HasEntry(index, t, arg[1])
    /\ \E t \in Elements(arg[2]), d \in IndexDocs(index) :
           d # arg[1] /\ HasEntry(index, t, d)

====
